---------------------------- MODULE Spec2Model ----------------------------
(***************************************************************************)
(* divvy: Entity handles, Worlds, ComponentPools.                          *)
(*                                                                         *)
(* Every C++ method is an operator from a configuration c (the heap: all   *)
(* World objects and all Entity objects) to the SET of configurations the  *)
(* call can end in.  A configuration carries the exception that is         *)
(* propagating (exc) and the value returned (ret).  A set with more than   *)
(* one element is a call with undefined behaviour.                         *)
(***************************************************************************)
EXTENDS Integers, Sequences, FiniteSets, TLC

\* ------------------------------------------------------------ universe ---
Null == "null"

\* Storage locations of Entity objects and of World objects.
Handles == {"a", "b", "c"}
Worlds  == {"W1", "W2"}

\* Component types; TypeSeq is the order of std::type_index, the key order
\* of the registry map.
Types   == {"X", "Y"}
TypeSeq == <<"X", "Y">>

\* Bounds of the exploration.
MaxCap == 2
TwoCap == 1
MaxVal == 1
MaxArg == 1
MaxWrap == 0

ArgVals == 0..MaxArg

\* world and entity are the heap.  fault: the process has died.
\* scope is what this exploration covers and never changes: the Entity
\* locations and the component types the caller uses, the number of slots a
\* World may reach, and the write-only members it follows (m_entity and
\* m_count: the library assigns them and never reads them; when they are not
\* followed they stay as constructed).
VARIABLES world, entity, fault, scope

vars == <<world, entity, fault, scope>>

\* --------------------------------------------------------- Component -----
\* A default constructed component: payload 0, no Entity assigned.
DefaultComponent == [val |-> 0, m_entity |-> Null]

\* T::clone(other): the payload is copied, m_entity is left alone.
clone(self, other) == [self EXCEPT !.val = other.val]

\* T::update(): the counter component increments its payload.
ComponentUpdate(comp) == [comp EXCEPT !.val = @ + 1]

\* ------------------------------------------------------ ComponentPool ----
EmptyPool == [m_pool |-> << >>, m_active |-> << >>]

\* std::vector::resize(n, fill)
VecResize(v, n, fill) ==
    IF n <= Len(v) THEN SubSeq(v, 1, n)
    ELSE v \o [i \in 1..(n - Len(v)) |-> fill]

\* resize(size) that stops one element short of size.
PoolResizeShort(p, size) ==
    LET n == IF size > 0 THEN size - 1 ELSE 0
    IN  [m_pool   |-> VecResize(p.m_pool, n, DefaultComponent),
         m_active |-> VecResize(p.m_active, n, FALSE)]

PoolResize(p, size) ==
    [m_pool   |-> VecResize(p.m_pool, size, DefaultComponent),
     m_active |-> VecResize(p.m_active, size, FALSE)]

PoolHas(p, index) ==
    IF index < Len(p.m_active) THEN p.m_active[index + 1] ELSE FALSE

\* add(index) without the test of the index against the length of the pool.
PoolAddUnchecked(p, index) == FALSE

\* add(index) throws when index >= m_pool.size()
PoolAddThrows(p, index) == index >= Len(p.m_pool)
PoolAdd(p, index) == [p EXCEPT !.m_active[index + 1] = TRUE]

\* remove(index) throws when m_active.at(index) is out of range
PoolRemoveThrows(p, index) == index >= Len(p.m_active)
\* remove(index) that leaves the component active.
PoolRemoveKeep(p, index) == p

PoolRemove(p, index) == [p EXCEPT !.m_active[index + 1] = FALSE]

PoolAt(p, index) == p.m_pool[index + 1]


\* ------------------------------------------------------ configurations ---
NoExc == "none"

\* The exception leaves the call: nothing after the throw is executed.
Throw(c, what) == [c EXCEPT !.exc = what]

\* The process dies (segmentation fault, abort).
Crash(c) == [c EXCEPT !.exc = "crash"]

\* Undefined behaviour that the build survives.
Survive(c) == c

\* Run F on every configuration of cs that carries no exception.
Then(cs, F(_)) == UNION {IF c.exc = NoExc THEN F(c) ELSE {c} : c \in cs}

\* A write to m_count, and to Component::m_entity: followed when observed.
Count(c, new, old) == IF "m_count" \in c.scope.observed THEN new ELSE old
BackRef(c, new, old) == IF "m_entity" \in c.scope.observed THEN new ELSE old

Min(S) == CHOOSE x \in S : \A y \in S : x <= y

\* m_registry.find(typeid(T)) != m_registry.end()
Registered(W, t) == t \in DOMAIN W.m_registry

\* ------------------------------------------------------------- World -----
\* A World as its constructor leaves it.
NewWorld ==
    [alive      |-> TRUE,
     m_registry |-> << >>,
     m_entities |-> << >>,
     m_open     |-> {},
     m_capacity |-> 0,
     m_count    |-> 0]

\* An Entity as Entity() leaves it; the storage of a dead Entity reads the same.
NewEntity(isAlive) == [alive |-> isAlive, m_world |-> Null, m_id |-> 0]

\* entity.m_id = 0; entity.m_world = nullptr; through a reference the World
\* kept.  The reference dangles when the Entity at that location is dead.
Uninitialize(c, h) ==
    IF c.entity[h].alive
    THEN {[c EXCEPT !.entity[h].m_id = 0, !.entity[h].m_world = Null]}
    ELSE {Survive(c), Crash(c)}

RECURSIVE UninitializeAll(_, _)
UninitializeAll(c, es) ==
    IF es = << >> THEN {c}
    ELSE Then(Uninitialize(c, Head(es)), LAMBDA d : UninitializeAll(d, Tail(es)))

\* World::~World()
WorldDtor(c, w) ==
    Then(UninitializeAll(c, c.world[w].m_entities),
         LAMBDA d : {[d EXCEPT !.world[w].alive = FALSE]})

\* add<T>() without the resize of the pool to the capacity.
WorldAddUnsized(c, w, t) ==
    LET W == c.world[w]
    IN  {[c EXCEPT !.world[w].m_registry =
            IF Registered(W, t) THEN @ ELSE @ @@ (t :> EmptyPool)]}

\* add<T>() that installs a fresh pool even when the type is registered.
WorldAddMut(c, w, t) ==
    LET W == c.world[w]
    IN  {[c EXCEPT !.world[w].m_registry =
            (t :> PoolResize(EmptyPool, W.m_capacity)) @@ @]}

\* World::add<T>()
WorldAdd(c, w, t) ==
    LET W   == c.world[w]
        reg == IF Registered(W, t) THEN W.m_registry
               ELSE W.m_registry @@ (t :> EmptyPool)
    IN  {[c EXCEPT !.world[w].m_registry =
            [reg EXCEPT ![t] = PoolResize(@, W.m_capacity)]]}

\* World::has<T>()
WorldHas(c, w, t) == Registered(c.world[w], t)

\* remove<T>() that empties the pool of the type and keeps it registered.
WorldRemoveMut(c, w, t) ==
    IF Registered(c.world[w], t)
    THEN {[c EXCEPT !.world[w].m_registry[t] = EmptyPool]}
    ELSE {c}

\* World::remove<T>()
WorldRemove(c, w, t) ==
    {[c EXCEPT !.world[w].m_registry =
        [u \in (DOMAIN @) \ {t} |-> @[u]]]}

\* clear() that unbinds the Entities and keeps the registry.
clearMut(c, w) == UninitializeAll(c, c.world[w].m_entities)

\* World::clear()
clear(c, w) ==
    Then(UninitializeAll(c, c.world[w].m_entities),
         LAMBDA d : {[d EXCEPT !.world[w].m_registry = << >>]})

\* update() without the test that the component is active.
updateMut(c, w) ==
    LET W == c.world[w]
    IN  {[c EXCEPT !.world[w].m_registry =
            [t \in DOMAIN @ |->
                [@[t] EXCEPT !.m_pool =
                    [i \in DOMAIN @ |->
                        IF /\ i - 1 < W.m_capacity
                           /\ (i - 1) \notin W.m_open
                        THEN ComponentUpdate(@[i]) ELSE @[i]]]]]}

\* World::update()
update(c, w) ==
    LET W == c.world[w]
    IN  {[c EXCEPT !.world[w].m_registry =
            [t \in DOMAIN @ |->
                [@[t] EXCEPT !.m_pool =
                    [i \in DOMAIN @ |->
                        IF /\ i - 1 < W.m_capacity
                           /\ PoolHas(W.m_registry[t], i - 1)
                           /\ (i - 1) \notin W.m_open
                        THEN ComponentUpdate(@[i]) ELSE @[i]]]]]}

\* The inner loop of World::update() from slot i on: the slots of type t whose
\* component update() is called on, in the order of the calls.
RECURSIVE VisitSlots(_, _, _)
VisitSlots(W, t, i) ==
    IF i >= W.m_capacity THEN << >>
    ELSE (IF PoolHas(W.m_registry[t], i) /\ i \notin W.m_open
          THEN << <<t, i>> >> ELSE << >>) \o VisitSlots(W, t, i + 1)

\* The outer loop of World::update() over the registry, in key order.
RECURSIVE VisitTypes(_, _)
VisitTypes(W, ts) ==
    IF ts = << >> THEN << >>
    ELSE (IF Registered(W, Head(ts)) THEN VisitSlots(W, Head(ts), 0) ELSE << >>)
         \o VisitTypes(W, Tail(ts))

\* The sequence of <<type, slot>> pairs that one World::update() calls
\* update() on, slot by slot with the types inside (not what the code does).
UpdateOrderBySlot(c, w) ==
    LET W == c.world[w]
        hit == {p \in Types \X (0..MaxCap + 1) :
                   /\ Registered(W, p[1]) /\ p[2] < W.m_capacity
                   /\ PoolHas(W.m_registry[p[1]], p[2]) /\ p[2] \notin W.m_open}
        At(i) == SelectSeq(TypeSeq, LAMBDA t : <<t, i>> \in hit)
        Row(i) == [k \in 1..Len(At(i)) |-> <<At(i)[k], i>>]
    IN  Row(0) \o Row(1) \o Row(2) \o Row(3)

\* The sequence of <<type, slot>> pairs of one World::update() with the
\* registry walked from its last key to its first (not what the code does).
UpdateOrderBackwards(c, w) ==
    VisitTypes(c.world[w], [i \in DOMAIN TypeSeq |-> TypeSeq[Len(TypeSeq) + 1 - i]])

\* The sequence of <<type, slot>> pairs that one World::update() calls
\* update() on, in the order of the calls.
UpdateOrder(c, w) == VisitTypes(c.world[w], TypeSeq)

\* World::hasEntity(entity)
hasEntity(c, w, h) ==
    LET W == c.world[w]
        id == c.entity[h].m_id
    IN  ~(id \in W.m_open \/ W.m_capacity <= id)

\* World::hasComponent<T>(entity)
hasComponent(c, w, h, t) ==
    LET W == c.world[w]
    IN  IF ~Registered(W, t) \/ ~PoolHas(W.m_registry[t], c.entity[h].m_id)
        THEN FALSE
        ELSE TRUE

\* std::vector::erase(begin() + index), index < size()
EraseAt(v, index) == SubSeq(v, 1, index) \o SubSeq(v, index + 2, Len(v))

\* m_entities.erase(m_entities.begin() + index).  The iterator is not
\* dereferenceable when index >= size(): the build either dies or moves
\* nothing and drops the last element; on an empty vector nothing is left
\* to drop.
EraseEntity(c, w, index) ==
    LET es == c.world[w].m_entities
    IN  IF index < Len(es)
        THEN {[c EXCEPT !.world[w].m_entities = EraseAt(es, index)]}
        ELSE {Crash(c),
              Survive([c EXCEPT !.world[w].m_entities =
                         SubSeq(es, 1, IF Len(es) = 0 THEN 0 ELSE Len(es) - 1)])}

\* addEntity that grows the capacity without resizing the pools.
addEntityMut(c, w, h) ==
    LET W == c.world[w]
    IN  IF Cardinality(W.m_open) # 0
        THEN LET index == Min(W.m_open)
                 d == [c EXCEPT !.world[w].m_open = @ \ {index}]
             IN  IF index < Len(W.m_entities)
                 THEN {[d EXCEPT !.world[w].m_entities[index + 1] = h,
                                 !.world[w].m_count = Count(c, @ + 1, @),
                                 !.ret = index]}
                 ELSE {Throw(d, "out_of_range")}
        ELSE {[c EXCEPT !.world[w].m_capacity = @ + 1,
                        !.world[w].m_entities = Append(@, h),
                        !.world[w].m_count = Count(c, @ + 1, @),
                        !.ret = W.m_capacity]}

\* World::addEntity(Entity& entity); the new EntityID is returned in ret
addEntity(c, w, h) ==
    LET W == c.world[w]
    IN  IF Cardinality(W.m_open) # 0
        THEN LET index == Min(W.m_open)
                 d == [c EXCEPT !.world[w].m_open = @ \ {index}]
             IN  IF index < Len(W.m_entities)
                 THEN {[d EXCEPT !.world[w].m_entities[index + 1] = h,
                                 !.world[w].m_count = Count(c, @ + 1, @),
                                 !.ret = index]}
                 ELSE {Throw(d, "out_of_range")}
        ELSE {[c EXCEPT !.world[w].m_capacity = @ + 1,
                        !.world[w].m_registry =
                            [t \in DOMAIN @ |-> PoolResize(@[t], W.m_capacity + 1)],
                        !.world[w].m_entities = Append(@, h),
                        !.world[w].m_count = Count(c, @ + 1, @),
                        !.ret = W.m_capacity]}

\* add(id); at(id).clone(source); at(id).m_entity = &entity
CloneComponent(c, w, t, id, source, h) ==
    IF PoolAddThrows(c.world[w].m_registry[t], id)
    THEN {Throw(c, "runtime_error")}
    ELSE {[c EXCEPT !.world[w].m_registry[t] =
             [PoolAdd(@, id) EXCEPT !.m_pool[id + 1] =
                 [clone(@, source) EXCEPT !.m_entity = BackRef(c, h, @)]]]}

\* The loop of addEntity(entity, other) over the registry of world from,
\* in key order: every type active at other.m_id and registered in w.
RECURSIVE CloneAll(_, _, _, _, _, _, _)
CloneAll(c, w, from, ts, id, oid, h) ==
    IF ts = << >> THEN {c}
    ELSE LET t == Head(ts)
             F == c.world[from]
         IN  IF /\ Registered(F, t)
                /\ PoolHas(F.m_registry[t], oid)
                /\ Registered(c.world[w], t)
             THEN Then(CloneComponent(c, w, t, id, PoolAt(F.m_registry[t], oid), h),
                       LAMBDA d : CloneAll(d, w, from, Tail(ts), id, oid, h))
             ELSE CloneAll(c, w, from, Tail(ts), id, oid, h)

\* World::addEntity(Entity& entity, const Entity& other)
addEntityClone(c, w, h, o) ==
    Then(addEntity(c, w, h),
         LAMBDA d :
            LET id == d.ret
                ow == d.entity[o].m_world
                oid == d.entity[o].m_id
            IN  IF ow = w
                THEN CloneAll(d, w, w, TypeSeq, id, oid, h)
                ELSE IF ow = Null
                THEN {Crash(d), Survive(d)}
                ELSE IF d.world[ow].alive
                THEN CloneAll(d, w, ow, TypeSeq, id, oid, h)
                ELSE {Crash(d)} \cup CloneAll(Survive(d), w, ow, TypeSeq, id, oid, h))

\* The loop of removeEntity over the registry, in key order.
RECURSIVE RemoveAll(_, _, _, _)
RemoveAll(c, w, ts, id) ==
    IF ts = << >> THEN {c}
    ELSE LET t == Head(ts)
         IN  IF ~Registered(c.world[w], t)
             THEN RemoveAll(c, w, Tail(ts), id)
             ELSE IF PoolRemoveThrows(c.world[w].m_registry[t], id)
             THEN {Throw(c, "runtime_error")}
             ELSE RemoveAll([c EXCEPT !.world[w].m_registry[t] = PoolRemove(@, id)],
                            w, Tail(ts), id)

\* removeEntity without the loop that deactivates the slot in every pool.
removeEntityKeep(c, w, h) ==
    LET id == c.entity[h].m_id
    IN  IF hasEntity(c, w, h)
        THEN Then(EraseEntity(c, w, id), LAMBDA e :
                {[e EXCEPT !.world[w].m_capacity =
                               IF id = e.world[w].m_capacity - 1 THEN @ - 1 ELSE @,
                           !.world[w].m_open =
                               IF id = e.world[w].m_capacity - 1 THEN @ ELSE @ \cup {id},
                           !.entity[h].m_id = 0,
                           !.entity[h].m_world = Null,
                           !.world[w].m_count = Count(c, @ - 1, @)]})
        ELSE {c}

\* removeEntity that puts every released index on the free list, the top one
\* included, and never lowers the capacity.
removeEntityMut(c, w, h) ==
    LET id == c.entity[h].m_id
    IN  IF hasEntity(c, w, h)
        THEN Then(RemoveAll(c, w, TypeSeq, id), LAMBDA d :
             Then(EraseEntity(d, w, id), LAMBDA e :
                {[e EXCEPT !.world[w].m_open = @ \cup {id},
                           !.entity[h].m_id = 0,
                           !.entity[h].m_world = Null,
                           !.world[w].m_count = Count(c, @ - 1, @)]}))
        ELSE {c}

\* World::removeEntity(Entity& entity)
removeEntity(c, w, h) ==
    LET id == c.entity[h].m_id
    IN  IF hasEntity(c, w, h)
        THEN Then(RemoveAll(c, w, TypeSeq, id), LAMBDA d :
             Then(EraseEntity(d, w, id), LAMBDA e :
                {[e EXCEPT !.world[w].m_capacity =
                               IF id = e.world[w].m_capacity - 1 THEN @ - 1 ELSE @,
                           !.world[w].m_open =
                               IF id = e.world[w].m_capacity - 1 THEN @ ELSE @ \cup {id},
                           !.entity[h].m_id = 0,
                           !.entity[h].m_world = Null,
                           !.world[w].m_count = Count(c, @ - 1, @)]}))
        ELSE {c}

\* World::replaceEntity(Entity& entity, Entity& other)
replaceEntity(c, w, h, o) ==
    IF c.entity[h].m_id < Len(c.world[w].m_entities)
    THEN {[c EXCEPT !.world[w].m_entities[c.entity[h].m_id + 1] = o]}
    ELSE {Throw(c, "out_of_range")}

\* addComponent that assigns T(args) to a component that is already active.
addComponentMut(c, w, h, t, arg) ==
    LET W == c.world[w]
        id == c.entity[h].m_id
    IN  IF ~hasEntity(c, w, h) THEN {Throw(c, "runtime_error")}
        ELSE IF ~WorldHas(c, w, t) THEN {Throw(c, "runtime_error")}
        ELSE Then(CloneComponent(c, w, t, id, [DefaultComponent EXCEPT !.val = arg], h),
                  LAMBDA d : {[d EXCEPT !.ret = PoolAt(d.world[w].m_registry[t], id).val]})

\* World::addComponent<T>(entity, args); ret is the component referred to
addComponent(c, w, h, t, arg) ==
    LET W == c.world[w]
        id == c.entity[h].m_id
    IN  IF ~hasEntity(c, w, h) THEN {Throw(c, "runtime_error")}
        ELSE IF ~WorldHas(c, w, t) THEN {Throw(c, "runtime_error")}
        ELSE Then(IF ~PoolHas(W.m_registry[t], id)
                  THEN CloneComponent(c, w, t, id,
                                      [DefaultComponent EXCEPT !.val = arg], h)
                  ELSE {c},
                  LAMBDA d : {[d EXCEPT !.ret = PoolAt(d.world[w].m_registry[t], id).val]})

\* World::getComponent<T>(entity); ret is the component referred to
getComponent(c, w, h, t) ==
    IF ~hasEntity(c, w, h) THEN {Throw(c, "runtime_error")}
    ELSE IF ~hasComponent(c, w, h, t) THEN {Throw(c, "runtime_error")}
    ELSE {[c EXCEPT !.ret = PoolAt(c.world[w].m_registry[t], c.entity[h].m_id).val]}

\* World::removeComponent<T>(entity)
removeComponent(c, w, h, t) ==
    LET W == c.world[w]
        id == c.entity[h].m_id
    IN  IF ~Registered(W, t) THEN {Throw(c, "runtime_error")}
        ELSE IF PoolRemoveThrows(W.m_registry[t], id) THEN {Throw(c, "runtime_error")}
        ELSE {[c EXCEPT !.world[w].m_registry[t] = PoolRemove(@, id)]}

\* ------------------------------------------------------------ Entity -----
\* Entity::valid()
valid(c, h) == IF c.entity[h].m_world = Null THEN FALSE ELSE TRUE

\* m_world->F(...): the World may be gone while the Entity still points to it.
WithWorld(c, h, F(_, _)) ==
    LET w == c.entity[h].m_world
    IN  IF c.world[w].alive THEN F(c, w)
        ELSE {Crash(c)} \cup F(Survive(c), w)

\* Entity::reset()
EntityReset(c, h) ==
    IF valid(c, h)
    THEN WithWorld(c, h, LAMBDA d, w : removeEntity(d, w, h))
    ELSE {c}

\* m_world = &world; m_id = world.addEntity(*this);
BindNew(c, h, w) ==
    Then(addEntity([c EXCEPT !.entity[h].m_world = w], w, h),
         LAMBDA d : {[d EXCEPT !.entity[h].m_id = d.ret]})

\* m_world = &world; m_id = world.addEntity(*this, other);
BindClone(c, h, o, w) ==
    Then(addEntityClone([c EXCEPT !.entity[h].m_world = w], w, h, o),
         LAMBDA d : {[d EXCEPT !.entity[h].m_id = d.ret]})

\* m_world = other.m_world; if (valid()) m_id = m_world->addEntity(*this, other);
BindCopy(c, h, o) ==
    LET d == [c EXCEPT !.entity[h].m_world = c.entity[o].m_world]
    IN  IF valid(d, h)
        THEN WithWorld(d, h, LAMBDA e, w :
                Then(addEntityClone(e, w, h, o),
                     LAMBDA f : {[f EXCEPT !.entity[h].m_id = f.ret]}))
        ELSE {d}

\* if (other.m_world) { replaceEntity(other, *this); m_id = ...; m_world = ...;
\*                      other.m_world = nullptr; }
TakeOver(c, h, o) ==
    IF c.entity[o].m_world # Null
    THEN WithWorld(c, o, LAMBDA d, w :
            Then(replaceEntity(d, w, o, h),
                 LAMBDA e : {[e EXCEPT !.entity[h].m_id = e.entity[o].m_id,
                                       !.entity[h].m_world = e.entity[o].m_world,
                                       !.entity[o].m_world = Null]}))
    ELSE {c}

\* Entity::reset(World& world)
EntityResetWorld(c, h, w) ==
    Then(EntityReset(c, h), LAMBDA d : BindNew(d, h, w))

\* Entity::reset(Entity&& other)
EntityResetMove(c, h, o) == TakeOver(c, h, o)

\* Entity::reset(const Entity& other)
EntityResetCopy(c, h, o) ==
    Then(EntityReset(c, h), LAMBDA d : BindCopy(d, h, o))

\* Entity::reset(const Entity& other, World& world)
EntityResetCopyWorld(c, h, o, w) ==
    Then(EntityReset(c, h), LAMBDA d : BindClone(d, h, o, w))

\* A constructor that throws leaves no object: the storage stays dead.
Constructed(cs, h) ==
    {IF d.exc = NoExc THEN d ELSE [d EXCEPT !.entity[h] = NewEntity(FALSE)] : d \in cs}

\* Entity::Entity()
EntityCtor(c, h) == {[c EXCEPT !.entity[h] = NewEntity(TRUE)]}

\* Entity::Entity(World& world)
EntityCtorWorld(c, h, w) ==
    Constructed(BindNew([c EXCEPT !.entity[h] = NewEntity(TRUE)], h, w), h)

\* Entity::Entity(Entity&& other)
EntityCtorMove(c, h, o) ==
    Constructed(TakeOver([c EXCEPT !.entity[h] = NewEntity(TRUE)], h, o), h)

\* Entity::Entity(const Entity& other)
EntityCtorCopy(c, h, o) ==
    Constructed(BindCopy([c EXCEPT !.entity[h] = NewEntity(TRUE)], h, o), h)

\* Entity::Entity(const Entity& other, World& world)
EntityCtorCopyWorld(c, h, o, w) ==
    Constructed(BindClone([c EXCEPT !.entity[h] = NewEntity(TRUE)], h, o, w), h)

\* Entity::~Entity(): reset(), then the storage is dead.  An exception that
\* leaves a destructor ends the process.
EntityDtor(c, h) ==
    {IF d.exc = NoExc THEN [d EXCEPT !.entity[h] = NewEntity(FALSE)] ELSE Crash(d)
        : d \in EntityReset(c, h)}

\* Entity::add<T>(args)
EntityAdd(c, h, t, arg) ==
    IF ~valid(c, h) THEN {Throw(c, "runtime_error")}
    ELSE WithWorld(c, h, LAMBDA d, w : addComponent(d, w, h, t, arg))

\* has<T>() that answers false on an unbound Entity instead of throwing.
EntityHasMut(c, h, t) ==
    IF ~valid(c, h) THEN {[c EXCEPT !.retb = FALSE]}
    ELSE WithWorld(c, h, LAMBDA d, w : {[d EXCEPT !.retb = hasComponent(d, w, h, t)]})

\* Entity::has<T>(); the answer is returned in retb
EntityHas(c, h, t) ==
    IF ~valid(c, h) THEN {Throw(c, "runtime_error")}
    ELSE WithWorld(c, h, LAMBDA d, w : {[d EXCEPT !.retb = hasComponent(d, w, h, t)]})

\* Entity::get<T>()
EntityGet(c, h, t) ==
    IF ~valid(c, h) THEN {Throw(c, "runtime_error")}
    ELSE WithWorld(c, h, LAMBDA d, w : getComponent(d, w, h, t))

\* Entity::remove<T>()
EntityRemove(c, h, t) ==
    IF ~valid(c, h) THEN {Throw(c, "runtime_error")}
    ELSE WithWorld(c, h, LAMBDA d, w : removeComponent(d, w, h, t))

\* entity.get<T>().set(arg): the caller writes through the reference get returns
SetComponent(c, h, t, arg) ==
    Then(EntityGet(c, h, t), LAMBDA d :
        {[d EXCEPT !.world[d.entity[h].m_world].m_registry[t].m_pool[d.entity[h].m_id + 1].val = arg]})

\* ---------------------------------------------------------- the program --
\* The heap as the configuration a call starts from.
Cfg == [world |-> world, entity |-> entity, scope |-> scope,
        exc |-> NoExc, ret |-> 0, retb |-> FALSE]

\* The exploration stops at scope.cap slots, at payload MaxVal and at MaxWrap
\* decrements of m_count below zero (m_count is a size_t: it wraps, and a
\* negative number here stands for the wrapped value).
Bounded(d) ==
    \A w \in Worlds :
        /\ d.world[w].m_capacity <= d.scope.cap[w]
        /\ d.world[w].m_count >= -MaxWrap
        /\ \A t \in DOMAIN d.world[w].m_registry :
             \A i \in DOMAIN d.world[w].m_registry[t].m_pool :
                d.world[w].m_registry[t].m_pool[i].val <= MaxVal

\* The call ends in configuration d.
Commit(d) ==
    /\ Bounded(d)
    /\ world' = d.world
    /\ entity' = d.entity
    /\ scope' = scope
    /\ fault' = (d.exc = "crash")

Dead(h)   == ~fault /\ ~entity[h].alive
Alive(h)  == ~fault /\ entity[h].alive
WAlive(w) == ~fault /\ world[w].alive

\* Entity h;
Construct(h) ==
    /\ Dead(h)
    /\ \E d \in EntityCtor(Cfg, h) : Commit(d)

\* Entity h(w);
ConstructIn(h, w) ==
    /\ Dead(h) /\ WAlive(w)
    /\ \E d \in EntityCtorWorld(Cfg, h, w)  : Commit(d)

\* Entity h(std::move(o));
ConstructMove(h, o) ==
    /\ Dead(h) /\ Alive(o)
    /\ \E d \in EntityCtorMove(Cfg, h, o)  : Commit(d)

\* Entity h(o);
ConstructCopy(h, o) ==
    /\ Dead(h) /\ Alive(o)
    /\ \E d \in EntityCtorCopy(Cfg, h, o)  : Commit(d)

\* Entity h(o, w);
ConstructCopyIn(h, o, w) ==
    /\ Dead(h) /\ Alive(o) /\ WAlive(w)
    /\ \E d \in EntityCtorCopyWorld(Cfg, h, o, w)  : Commit(d)

\* h goes out of scope
Destroy(h) ==
    /\ Alive(h)
    /\ \E d \in EntityDtor(Cfg, h) : Commit(d)

\* h.reset();
Reset(h) ==
    /\ Alive(h)
    /\ \E d \in EntityReset(Cfg, h) : Commit(d)

\* h.reset(w);
ResetIn(h, w) ==
    /\ Alive(h) /\ WAlive(w)
    /\ \E d \in EntityResetWorld(Cfg, h, w)  : Commit(d)

\* h.reset(std::move(o));
ResetMove(h, o) ==
    /\ Alive(h) /\ Alive(o) /\ h # o
    /\ \E d \in EntityResetMove(Cfg, h, o)  : Commit(d)

\* h.reset(o);
ResetCopy(h, o) ==
    /\ Alive(h) /\ Alive(o) /\ h # o
    /\ \E d \in EntityResetCopy(Cfg, h, o)  : Commit(d)

\* h.reset(o, w);
ResetCopyIn(h, o, w) ==
    /\ Alive(h) /\ Alive(o) /\ h # o /\ WAlive(w)
    /\ \E d \in EntityResetCopyWorld(Cfg, h, o, w)  : Commit(d)

\* h.add<t>(arg);
Add(h, t, arg) ==
    /\ Alive(h)
    /\ \E d \in EntityAdd(Cfg, h, t, arg)  : Commit(d)

\* h.has<t>();
Has(h, t) ==
    /\ Alive(h)
    /\ \E d \in EntityHas(Cfg, h, t)  : Commit(d)

\* h.get<t>();
Get(h, t) ==
    /\ Alive(h)
    /\ \E d \in EntityGet(Cfg, h, t)  : Commit(d)

\* h.remove<t>();
Remove(h, t) ==
    /\ Alive(h)
    /\ \E d \in EntityRemove(Cfg, h, t)  : Commit(d)

\* h.get<t>().set(arg);
Set(h, t, arg) ==
    /\ Alive(h)
    /\ \E d \in SetComponent(Cfg, h, t, arg)  : Commit(d)

\* w.add<t>();
Register(w, t) ==
    /\ WAlive(w)
    /\ \E d \in WorldAdd(Cfg, w, t)  : Commit(d)

\* w.remove<t>();
Unregister(w, t) ==
    /\ WAlive(w)
    /\ \E d \in WorldRemove(Cfg, w, t)  : Commit(d)

\* w.has<t>();
HasType(w, t) ==
    /\ WAlive(w)
    /\ Commit([Cfg EXCEPT !.retb = WorldHas(Cfg, w, t)])

\* w.clear();
Clear(w) ==
    /\ WAlive(w)
    /\ \E d \in clear(Cfg, w) : Commit(d)

\* w.update();
Update(w) ==
    /\ WAlive(w)
    /\ \E d \in update(Cfg, w) : Commit(d)

\* w goes out of scope
DestroyWorld(w) ==
    /\ WAlive(w)
    /\ \E d \in WorldDtor(Cfg, w) : Commit(d)

\* The Worlds of ws have been constructed; no Entity has.
InitScope(ws, sc) ==
    /\ world = [w \in Worlds |-> IF w \in ws THEN NewWorld
                                 ELSE [NewWorld EXCEPT !.alive = FALSE]]
    /\ entity = [h \in Handles |-> NewEntity(FALSE)]
    /\ fault = FALSE
    /\ scope = sc

\* The component types the caller uses somewhere.
ScopeTypes == UNION {scope.types[w] : w \in Worlds}

Next ==
    \/ \E h \in scope.handles : Construct(h)
    \/ \E h \in scope.handles, w \in Worlds : ConstructIn(h, w)
    \/ \E h, o \in scope.handles : ConstructMove(h, o)
    \/ \E h, o \in scope.handles : ConstructCopy(h, o)
    \/ \E h, o \in scope.handles, w \in Worlds : ConstructCopyIn(h, o, w)
    \/ \E h \in scope.handles : Destroy(h)
    \/ \E h \in scope.handles : Reset(h)
    \/ \E h \in scope.handles, w \in Worlds : ResetIn(h, w)
    \/ \E h, o \in scope.handles : ResetMove(h, o)
    \/ \E h, o \in scope.handles : ResetCopy(h, o)
    \/ \E h, o \in scope.handles, w \in Worlds : ResetCopyIn(h, o, w)
    \/ \E h \in scope.handles, t \in ScopeTypes, arg \in ArgVals : Add(h, t, arg)
    \/ \E h \in scope.handles, t \in ScopeTypes : Has(h, t)
    \/ \E h \in scope.handles, t \in ScopeTypes : Get(h, t)
    \/ \E h \in scope.handles, t \in ScopeTypes : Remove(h, t)
    \/ \E h \in scope.handles, t \in ScopeTypes, arg \in ArgVals : Set(h, t, arg)
    \/ \E w \in Worlds : \E t \in scope.types[w] : Register(w, t)
    \/ \E w \in Worlds : \E t \in scope.types[w] : Unregister(w, t)
    \/ \E w \in Worlds : \E t \in scope.types[w] : HasType(w, t)
    \/ \E w \in Worlds : Clear(w)
    \/ \E w \in Worlds : Update(w)
    \/ \E w \in Worlds : DestroyWorld(w)

\* One World, two Entity locations, both component types; m_count is followed.
Init ==
    InitScope({"W1"}, [handles |-> {"a", "b"},
                       types |-> [w \in Worlds |-> {"X", "Y"}],
                       cap |-> [w \in Worlds |-> MaxCap],
                       observed |-> {"m_count"}])

Spec == Init /\ [][Next]_vars

\* One World, three Entity locations, one component type.
InitThree ==
    InitScope({"W1"}, [handles |-> {"a", "b", "c"},
                       types |-> [w \in Worlds |-> {"X"}],
                       cap |-> [w \in Worlds |-> MaxCap], observed |-> {}])

SpecThree == InitThree /\ [][Next]_vars

\* Two Worlds, W1 of MaxCap slots and W2 of TwoCap, two Entity locations and
\* one component type, which each World registers and unregisters on its own.
InitTwo ==
    InitScope({"W1", "W2"}, [handles |-> {"a", "b"},
                             types |-> [w \in Worlds |-> {"X"}],
                             cap |-> [w \in Worlds |->
                                        IF w = "W1" THEN MaxCap ELSE TwoCap],
                             observed |-> {}])

SpecTwo == InitTwo /\ [][Next]_vars

\* One World, two Entity locations, one component type, with the m_entity
\* member of the components followed.
InitRef ==
    InitScope({"W1"}, [handles |-> {"a", "b"},
                       types |-> [w \in Worlds |-> {"X"}],
                       cap |-> [w \in Worlds |-> MaxCap],
                       observed |-> {"m_entity"}])

SpecRef == InitRef /\ [][Next]_vars

\* ------------------------------------------------------------- claims ----
\* What a caller can observe of a heap (world function wd, entity function en).

\* h is a live Entity object whose valid() is true.
BoundIn(en, h) == en[h].alive /\ en[h].m_world # Null

\* Type t is registered in World w and active at slot id.
ActiveAt(wd, w, t, id) ==
    /\ t \in DOMAIN wd[w].m_registry
    /\ id < Len(wd[w].m_registry[t].m_active)
    /\ wd[w].m_registry[t].m_active[id + 1]

\* The payload stored for type t at slot id of World w.
ValAt(wd, w, t, id) == wd[w].m_registry[t].m_pool[id + 1].val

\* The components of slot id of World w: the payload of every active type.
ComponentsAt(wd, w, id) ==
    [t \in {u \in Types : ActiveAt(wd, w, u, id)} |-> ValAt(wd, w, t, id)]

\* The call that ends in d changed nothing: no World and no Entity.
Unchanged(d) == d.world = world /\ d.entity = entity

\* C1: after World.clear() or the destruction of a World, every Entity that
\* was bound to that World is unbound (valid() is false), whatever creations,
\* moves and destructions came before.
C1_ClearUnbindsAll ==
    \A w \in Worlds :
        WAlive(w) =>
            \A d \in clear(Cfg, w) \cup WorldDtor(Cfg, w) :
                /\ d.exc = NoExc
                /\ \A h \in Handles :
                      (BoundIn(entity, h) /\ entity[h].m_world = w)
                          => ~BoundIn(d.entity, h)

\* What the caller may next do to Entity a in configuration d: write to one
\* of its components, remove one, or destroy a.
LaterOn(d, a) ==
    UNION ({SetComponent(d, a, t, arg) : t \in Types, arg \in ArgVals}
           \cup {EntityRemove(d, a, t) : t \in Types}
           \cup {EntityDtor(d, a)})

\* C2: copy-constructing b from a bound a gives b a new slot of a's World,
\* different from a's, with exactly the components active on a, equal in value;
\* writing to or removing a's components afterwards, or destroying a, does
\* not change b's components.
C2_CopyIsIndependentClone ==
    \A a, b \in Handles :
        (Dead(b) /\ ~fault /\ BoundIn(entity, a)) =>
            \A d \in EntityCtorCopy(Cfg, b, a) :
                LET w == entity[a].m_world
                    id == d.entity[b].m_id
                IN  /\ d.exc = NoExc
                    /\ BoundIn(d.entity, b)
                    /\ d.entity[b].m_world = w
                    /\ id # entity[a].m_id
                    /\ ComponentsAt(d.world, w, id)
                         = ComponentsAt(world, w, entity[a].m_id)
                    /\ \A e \in LaterOn(d, a) :
                          ComponentsAt(e.world, w, id) = ComponentsAt(d.world, w, id)

\* The components of slot id of World w that a World w2 has a pool for.
RegisteredIn(wd, w, id, w2) ==
    [t \in {u \in DOMAIN ComponentsAt(wd, w, id) : u \in DOMAIN wd[w2].m_registry}
        |-> ComponentsAt(wd, w, id)[t]]

\* Entity b(a, w2), or b.reset(a, w2) on a live b.
CloneInto(b, a, w2) ==
    IF entity[b].alive THEN EntityResetCopyWorld(Cfg, b, a, w2)
    ELSE EntityCtorCopyWorld(Cfg, b, a, w2)

\* C3: cloning a bound Entity a of World w1 into another World w2, by the
\* constructor or by reset with a destination, gives a bound Entity of w2 whose
\* active components are exactly those active on a whose type w2 has
\* registered, equal in value to a's; a type only w1 has registered is absent
\* and raises no error.
C3_CloneAcrossWorlds ==
    \A a, b \in Handles : \A w2 \in Worlds :
        (/\ ~fault /\ a # b /\ b \in scope.handles
         /\ BoundIn(entity, a) /\ entity[a].m_world # w2
         /\ world[w2].alive) =>
            \A d \in CloneInto(b, a, w2) :
                /\ d.exc = NoExc
                /\ BoundIn(d.entity, b)
                /\ d.entity[b].m_world = w2
                /\ ComponentsAt(d.world, w2, d.entity[b].m_id)
                     = RegisteredIn(world, entity[a].m_world, entity[a].m_id, w2)

\* Activation and value of every component of slot id of World w, one entry
\* per registered type.
SlotState(wd, w, id) ==
    [t \in DOMAIN wd[w].m_registry |->
        IF ActiveAt(wd, w, t, id) THEN <<TRUE, ValAt(wd, w, t, id)>>
        ELSE <<FALSE, 0>>]

\* Capacity, free list and entity count of World w.
SlotTable(wd, w) == <<wd[w].m_capacity, wd[w].m_open, wd[w].m_count>>

\* C4: after Entity b(std::move(a)) with a bound, a.valid() is false, b is
\* bound to the World and slot a had, every component of the slot is active
\* or not and valued as before, capacity, free list and entity count are
\* unchanged, and destroying a afterwards does not release b's slot.
C4_MoveTransfersSlot ==
    \A a, b \in Handles :
        (~fault /\ b \in scope.handles /\ ~entity[b].alive /\ BoundIn(entity, a)) =>
            \A d \in EntityCtorMove(Cfg, b, a) :
                LET w == entity[a].m_world
                    id == entity[a].m_id
                IN  /\ d.exc = NoExc
                    /\ d.entity[a].alive /\ ~BoundIn(d.entity, a)
                    /\ BoundIn(d.entity, b)
                    /\ d.entity[b].m_world = w /\ d.entity[b].m_id = id
                    /\ SlotState(d.world, w, id) = SlotState(world, w, id)
                    /\ SlotTable(d.world, w) = SlotTable(world, w)
                    /\ \A e \in EntityDtor(d, a) :
                          /\ e.exc = NoExc
                          /\ BoundIn(e.entity, b)
                          /\ SlotTable(e.world, w) = SlotTable(world, w)
                          /\ SlotState(e.world, w, id) = SlotState(world, w, id)

\* Slot id of World w (in heap wd) is occupied: inside the capacity and not on
\* the free list.
OccupiedSlot(wd, w, id) == id < wd[w].m_capacity /\ id \notin wd[w].m_open

\* How many times update() ran on the component of type t at slot id between
\* heap wd and heap wd2 (every run adds one to the payload).
Updates(wd, wd2, w, t, id) == ValAt(wd2, w, t, id) - ValAt(wd, w, t, id)

\* C5: World.update() runs update() exactly once on every component that is
\* active on an occupied slot and on no other component, raises nothing and
\* changes nothing else.
C5_UpdateOncePerActive ==
    \A w \in Worlds :
        WAlive(w) =>
            \A d \in update(Cfg, w) :
                /\ d.exc = NoExc
                /\ d.entity = entity
                /\ \A v \in Worlds \ {w} : d.world[v] = world[v]
                /\ SlotTable(d.world, w) = SlotTable(world, w)
                /\ d.world[w].m_entities = world[w].m_entities
                /\ DOMAIN d.world[w].m_registry = DOMAIN world[w].m_registry
                /\ \A t \in DOMAIN world[w].m_registry :
                      /\ d.world[w].m_registry[t].m_active = world[w].m_registry[t].m_active
                      /\ Len(d.world[w].m_registry[t].m_pool) = Len(world[w].m_registry[t].m_pool)
                      /\ \A id \in 0 .. Len(world[w].m_registry[t].m_pool) - 1 :
                            Updates(world, d.world, w, t, id) =
                                IF ActiveAt(world, w, t, id) /\ OccupiedSlot(world, w, id)
                                THEN 1 ELSE 0

\* The World holds a component update() runs on, next to a pool entry it must
\* pass over, and the Update step is taken.
C5_Witness ==
    \E w \in Worlds :
        /\ WAlive(w)
        /\ \E t \in DOMAIN world[w].m_registry :
              \E i, j \in 0 .. Len(world[w].m_registry[t].m_pool) - 1 :
                  /\ ActiveAt(world, w, t, i) /\ OccupiedSlot(world, w, i)
                  /\ ~ActiveAt(world, w, t, j)
        /\ ENABLED Update(w)

\* h is a live Entity object that is bound to no World.
UnboundIn(en, h) == en[h].alive /\ en[h].m_world = Null

\* The call raised an exception the caller can catch.
Raised(d) == d.exc \notin {NoExc, "crash"}

\* add<T>(arg), get<T>(), has<T>() and remove<T>() on Entity h.
ComponentCalls(h) ==
    UNION {EntityAdd(Cfg, h, t, arg) \cup EntityGet(Cfg, h, t)
           \cup EntityHas(Cfg, h, t) \cup EntityRemove(Cfg, h, t)
             : t \in Types, arg \in ArgVals}

\* C6: add, get, has and remove on an unbound Entity raise an error and leave
\* every World (and every Entity) unchanged; valid() of that Entity is false.
C6_UnboundRaises ==
    \A h \in Handles :
        (~fault /\ UnboundIn(entity, h)) =>
            /\ ~valid(Cfg, h)
            /\ \A d \in ComponentCalls(h) : Raised(d) /\ Unchanged(d)

\* An unbound Entity next to a World that holds an Entity with an active
\* component, so that there is state the calls could have changed.
C6_Witness ==
    \E h, g \in Handles :
        /\ ~fault /\ UnboundIn(entity, h) /\ BoundIn(entity, g)
        /\ world[entity[g].m_world].alive
        /\ \E t \in Types : ActiveAt(world, entity[g].m_world, t, entity[g].m_id)
        /\ \E t \in Types : ENABLED Has(h, t)

\* What has<T>() and get<T>() of Entity g answer for type u in configuration
\* d: the set of (exception, has, value) outcomes.
Answers(d, g, u) ==
    {<<e.exc, e.retb>> : e \in EntityHas(d, g, u)}
        \X {<<e.exc, e.ret>> : e \in EntityGet(d, g, u)}

\* Type t is registered in the World Entity h is bound to; a destroyed World
\* has no registry.
RegisteredFor(h, t) ==
    /\ world[entity[h].m_world].alive
    /\ t \in DOMAIN world[entity[h].m_world].m_registry

\* Type t is registered and active on the slot of Entity h.
ActiveOn(h, t) ==
    /\ RegisteredFor(h, t)
    /\ ActiveAt(world, entity[h].m_world, t, entity[h].m_id)

\* C7: add<T>(arg) on a bound Entity h whose World has T registered and on
\* which T is inactive succeeds; afterwards h.has<T>() is true and h.get<T>()
\* equals T(arg), and has/get of every other (Entity, type) pair answer as
\* before.
C7_AddActivates ==
    \A h \in Handles : \A t \in Types : \A arg \in ArgVals :
        (~fault /\ BoundIn(entity, h) /\ RegisteredFor(h, t) /\ ~ActiveOn(h, t)) =>
            \A d \in EntityAdd(Cfg, h, t, arg) :
                /\ d.exc = NoExc
                /\ d.ret = arg
                /\ Answers([d EXCEPT !.ret = 0], h, t) = {<<NoExc, TRUE>>} \X {<<NoExc, arg>>}
                /\ d.entity = entity
                /\ \A g \in Handles : \A u \in Types :
                      (BoundIn(entity, g) /\ <<g, u>> # <<h, t>>) =>
                          Answers([d EXCEPT !.ret = 0], g, u) = Answers(Cfg, g, u)

\* C8: add<T>(arg) on a bound Entity on which T is already active raises no
\* error and changes nothing: the component keeps its state, arg is ignored,
\* and the reference returned is to the existing instance.
C8_AddActiveIsNoOp ==
    \A h \in Handles : \A t \in Types : \A arg \in ArgVals :
        (~fault /\ BoundIn(entity, h) /\ ActiveOn(h, t)) =>
            \A d \in EntityAdd(Cfg, h, t, arg) :
                /\ d.exc = NoExc
                /\ Unchanged(d)
                /\ d.ret = ValAt(world, entity[h].m_world, t, entity[h].m_id)

\* T is active on a bound Entity with a payload that differs from the
\* argument a second add<T> is given.
C8_Witness ==
    \E h \in Handles : \E t \in Types : \E arg \in ArgVals :
        /\ ~fault /\ BoundIn(entity, h) /\ ActiveOn(h, t)
        /\ ValAt(world, entity[h].m_world, t, entity[h].m_id) # arg
        /\ ENABLED Add(h, t, arg)

\* C9: add<T>(arg) on a bound Entity whose World has not registered T raises
\* an error and leaves the World unchanged: no pool is created and no slot is
\* activated.
C9_AddUnregisteredRaises ==
    \A h \in Handles : \A t \in Types : \A arg \in ArgVals :
        (~fault /\ BoundIn(entity, h) /\ ~RegisteredFor(h, t)) =>
            \A d \in EntityAdd(Cfg, h, t, arg) : Raised(d) /\ Unchanged(d)

\* C10: on a bound Entity has<T>() is true exactly when T is registered and
\* active on the Entity's slot, never raises and never changes state;
\* get<T>() raises whenever has<T>() is false and otherwise returns the stored
\* component.
C10_HasGetAgree ==
    \A h \in Handles : \A t \in Types :
        (~fault /\ BoundIn(entity, h)) =>
            /\ \A d \in EntityHas(Cfg, h, t) :
                  /\ d.exc = NoExc
                  /\ Unchanged(d)
                  /\ d.retb = ActiveOn(h, t)
            /\ \A d \in EntityGet(Cfg, h, t) :
                  /\ Unchanged(d)
                  /\ IF ActiveOn(h, t)
                     THEN /\ d.exc = NoExc
                          /\ d.ret = ValAt(world, entity[h].m_world, t, entity[h].m_id)
                     ELSE Raised(d)

\* C11: remove<T>() on a bound Entity h whose World has T registered raises
\* nothing, makes h.has<T>() false and leaves has/get of every other
\* (Entity, type) pair as before; when T is already inactive on h the World
\* state is unchanged.
C11_RemoveDeactivates ==
    \A h \in Handles : \A t \in Types :
        (~fault /\ BoundIn(entity, h) /\ RegisteredFor(h, t)) =>
            \A d \in EntityRemove(Cfg, h, t) :
                /\ d.exc = NoExc
                /\ d.entity = entity
                /\ \A e \in EntityHas(d, h, t) : e.exc = NoExc /\ ~e.retb
                /\ \A g \in Handles : \A u \in Types :
                      (BoundIn(entity, g) /\ <<g, u>> # <<h, t>>) =>
                          Answers(d, g, u) = Answers(Cfg, g, u)
                /\ ~ActiveOn(h, t) => Unchanged(d)

\* C12: remove<T>() on a bound Entity whose World has not registered T raises
\* std::runtime_error and leaves the World state unchanged.
C12_RemoveUnregisteredRaises ==
    \A h \in Handles : \A t \in Types :
        (~fault /\ BoundIn(entity, h) /\ ~RegisteredFor(h, t)) =>
            \A d \in EntityRemove(Cfg, h, t) :
                d.exc = "runtime_error" /\ Unchanged(d)

\* The slots whose entry of a handle table refers to Entity h.
HeldBy(wd, h) ==
    {<<w, i>> \in Worlds \X (1..MaxCap + 1) :
        wd[w].alive /\ i <= Len(wd[w].m_entities) /\ wd[w].m_entities[i] = h}

\* Slot id of World w is free again and none of its components is active.
Released(wd, w, id) ==
    ~OccupiedSlot(wd, w, id) /\ DOMAIN ComponentsAt(wd, w, id) = {}

\* After the call that ends in d, Entity h (bound to slot oid of World ow
\* before) holds one occupied slot of World tw whose components are comps, and
\* the slot it held before is released.
Rebound(d, h, ow, oid, tw, comps) ==
    LET id == d.entity[h].m_id
    IN  /\ d.exc = NoExc
        /\ BoundIn(d.entity, h) /\ d.entity[h].m_world = tw
        /\ OccupiedSlot(d.world, tw, id)
        /\ Cardinality(HeldBy(d.world, h)) = 1
        /\ ComponentsAt(d.world, tw, id) = comps
        /\ <<ow, oid>> # <<tw, id>> => Released(d.world, ow, oid)

\* C13: reset(world), reset(other) and reset(other, world) on a bound Entity
\* release the slot it holds (its components are deactivated and the slot is
\* reclaimed) and then act as the matching constructor: afterwards the Entity
\* holds exactly one slot, with no component (reset(world)) or with the clone
\* of other's components, and nothing of the old slot's components.
C13_ResetReleasesThenBinds ==
    \A h \in Handles :
        (~fault /\ BoundIn(entity, h)) =>
            LET ow == entity[h].m_world
                oid == entity[h].m_id
            IN  /\ \A w \in Worlds : world[w].alive =>
                      \A d \in EntityResetWorld(Cfg, h, w) :
                          Rebound(d, h, ow, oid, w, << >>)
                /\ \A o \in Handles : (o # h /\ BoundIn(entity, o)) =>
                      LET w2 == entity[o].m_world
                          cs == ComponentsAt(world, w2, entity[o].m_id)
                      IN  /\ \A d \in EntityResetCopy(Cfg, h, o) :
                                Rebound(d, h, ow, oid, w2, cs)
                          /\ \A w \in Worlds : world[w].alive =>
                                \A d \in EntityResetCopyWorld(Cfg, h, o, w) :
                                    Rebound(d, h, ow, oid, w,
                                            RegisteredIn(world, w2, entity[o].m_id, w))

\* Some bound Entity of en refers to slot id of World w.
HasHandle(en, w, id) ==
    \E g \in Handles : BoundIn(en, g) /\ en[g].m_world = w /\ en[g].m_id = id

\* C14: h.reset(std::move(o)) on a bound Entity h releases the slot h holds
\* before h takes over the slot of o: the old slot is free with no active
\* component, and every occupied slot that had a handle still has one.
C14_ResetMoveReleasesFirst ==
    \A h, o \in Handles :
        (~fault /\ h # o /\ BoundIn(entity, h) /\ BoundIn(entity, o)) =>
            \A d \in EntityResetMove(Cfg, h, o) :
                LET ow == entity[h].m_world
                    oid == entity[h].m_id
                IN  /\ d.exc = NoExc
                    /\ <<ow, oid>> # <<entity[o].m_world, entity[o].m_id>>
                          => Released(d.world, ow, oid)
                    /\ \A w \in Worlds : \A id \in 0..MaxCap :
                          (/\ world[w].alive
                           /\ OccupiedSlot(d.world, w, id)
                           /\ HasHandle(entity, w, id))
                              => HasHandle(d.entity, w, id)

\* C15: destroying a bound Entity, or reset() on it, raises nothing, releases
\* its slot and leaves the handle unbound; destroying an unbound Entity, or
\* reset() on it, changes no World and no Entity, so a second reset() changes
\* nothing.
C15_ResetReleasesAndIsIdempotent ==
    \A h \in Handles :
        /\ (~fault /\ BoundIn(entity, h)) =>
              /\ \A d \in EntityReset(Cfg, h) :
                    /\ d.exc = NoExc
                    /\ UnboundIn(d.entity, h)
                    /\ Released(d.world, entity[h].m_world, entity[h].m_id)
                    /\ \A e \in EntityReset(d, h) : e = d
              /\ \A d \in EntityDtor(Cfg, h) :
                    /\ d.exc = NoExc
                    /\ ~d.entity[h].alive
                    /\ Released(d.world, entity[h].m_world, entity[h].m_id)
        /\ (~fault /\ UnboundIn(entity, h)) =>
              /\ \A d \in EntityReset(Cfg, h) : d.exc = NoExc /\ Unchanged(d)
              /\ \A d \in EntityDtor(Cfg, h) :
                    /\ d.exc = NoExc
                    /\ d.world = world
                    /\ \A g \in Handles \ {h} : d.entity[g] = entity[g]

\* C16: copy-constructing an Entity from an unbound source raises an error;
\* it does not complete silently.
C16_CopyFromUnboundRaises ==
    \A a, b \in Handles :
        (~fault /\ b \in scope.handles /\ ~entity[b].alive /\ UnboundIn(entity, a)) =>
            \A d \in EntityCtorCopy(Cfg, b, a) : Raised(d)

\* The pools of World w for every registered type but t.
OtherPools(wd, w, t) ==
    [u \in (DOMAIN wd[w].m_registry) \ {t} |-> wd[w].m_registry[u]]

\* C17: World.add<T>() for a type T the World has not registered makes
\* World.has<T>() true and leaves T's pool as long as the capacity with every
\* slot inactive, so that add<T> succeeds on every Entity bound to the World;
\* the slot table, the handle table, the Entities and the pools of the other
\* types are unchanged.
C17_RegisterSizesPool ==
    \A w \in Worlds : \A t \in Types :
        (WAlive(w) /\ ~Registered(world[w], t)) =>
            \A d \in WorldAdd(Cfg, w, t) :
                /\ d.exc = NoExc
                /\ WorldHas(d, w, t)
                /\ Len(d.world[w].m_registry[t].m_pool) = world[w].m_capacity
                /\ Len(d.world[w].m_registry[t].m_active) = world[w].m_capacity
                /\ \A id \in 0..MaxCap : ~ActiveAt(d.world, w, t, id)
                /\ SlotTable(d.world, w) = SlotTable(world, w)
                /\ d.world[w].m_entities = world[w].m_entities
                /\ OtherPools(d.world, w, t) = OtherPools(world, w, t)
                /\ \A w2 \in Worlds \ {w} : d.world[w2] = world[w2]
                /\ d.entity = entity
                /\ \A h \in Handles : \A arg \in ArgVals :
                      (BoundIn(entity, h) /\ entity[h].m_world = w) =>
                          \A e \in EntityAdd(d, h, t, arg) : e.exc = NoExc

\* C18: World.add<T>() for a type T the World has already registered raises
\* nothing and is a no-op for every caller: World.has<T>() stays true, every
\* slot keeps the activation and the value of each of its components, has<T>()
\* and get<T>() of every bound Entity answer as before, and the slot table, the
\* handle table, the other pools and the Entities are unchanged.
C18_RegisterTwiceIsNoOp ==
    \A w \in Worlds : \A t \in Types :
        (WAlive(w) /\ Registered(world[w], t)) =>
            \A d \in WorldAdd(Cfg, w, t) :
                /\ d.exc = NoExc
                /\ WorldHas(d, w, t)
                /\ \A id \in 0..MaxCap :
                      SlotState(d.world, w, id) = SlotState(world, w, id)
                /\ \A h \in Handles : \A u \in Types :
                      (BoundIn(entity, h) /\ entity[h].m_world = w) =>
                          Answers(d, h, u) = Answers(Cfg, h, u)
                /\ SlotTable(d.world, w) = SlotTable(world, w)
                /\ d.world[w].m_entities = world[w].m_entities
                /\ OtherPools(d.world, w, t) = OtherPools(world, w, t)
                /\ \A w2 \in Worlds \ {w} : d.world[w2] = world[w2]
                /\ d.entity = entity

\* T is registered again while an Entity holds an active T with a payload
\* that is not the default one.
C18_Witness ==
    \E h \in Handles : \E t \in Types :
        /\ ~fault /\ BoundIn(entity, h) /\ ActiveOn(h, t)
        /\ ValAt(world, entity[h].m_world, t, entity[h].m_id) # 0
        /\ ENABLED Register(entity[h].m_world, t)

\* C19: World.remove<T>() raises nothing and leaves World.has<T>() false and
\* has<T>() false on every Entity bound to the World; no Entity changes (none
\* becomes unbound), and the slot table, the handle table and the pools of the
\* other types are unchanged.  After World.add<T>() again no slot has an active
\* T.  When T was not registered nothing changes at all.
C19_UnregisterDropsPool ==
    \A w \in Worlds : \A t \in Types :
        WAlive(w) =>
            \A d \in WorldRemove(Cfg, w, t) :
                /\ d.exc = NoExc
                /\ ~WorldHas(d, w, t)
                /\ \A h \in Handles :
                      (BoundIn(entity, h) /\ entity[h].m_world = w) =>
                          \A e \in EntityHas(d, h, t) : e.exc = NoExc /\ ~e.retb
                /\ d.entity = entity
                /\ SlotTable(d.world, w) = SlotTable(world, w)
                /\ d.world[w].m_entities = world[w].m_entities
                /\ OtherPools(d.world, w, t) = OtherPools(world, w, t)
                /\ \A w2 \in Worlds \ {w} : d.world[w2] = world[w2]
                /\ \A e \in WorldAdd(d, w, t) :
                      /\ e.exc = NoExc /\ WorldHas(e, w, t)
                      /\ \A id \in 0..MaxCap : ~ActiveAt(e.world, w, t, id)
                      /\ \A h \in Handles :
                            (BoundIn(entity, h) /\ entity[h].m_world = w) =>
                                \A f \in EntityHas(e, h, t) : f.exc = NoExc /\ ~f.retb
                /\ ~Registered(world[w], t) => Unchanged(d)

\* T is unregistered while an Entity of the World holds an active T.
C19_Witness ==
    \E h \in Handles : \E t \in Types :
        /\ ~fault /\ BoundIn(entity, h) /\ ActiveOn(h, t)
        /\ ENABLED Unregister(entity[h].m_world, t)

\* C20: World.clear() throws nothing, and when it returns World.has<T>() is
\* false for every component type T, whatever was registered before.
C20_ClearUnregistersAll ==
    \A w \in Worlds :
        WAlive(w) =>
            \A d \in clear(Cfg, w) :
                /\ ~Raised(d)
                /\ d.exc = NoExc => \A t \in Types : ~WorldHas(d, w, t)

\* clear() is called on a World with every type of the scope registered and
\* a component active on a bound Entity.
C20_Witness ==
    \E w \in Worlds : \E h \in Handles :
        /\ WAlive(w)
        /\ scope.types[w] # {}
        /\ \A t \in scope.types[w] : Registered(world[w], t)
        /\ BoundIn(entity, h) /\ entity[h].m_world = w
        /\ \E t \in Types : ActiveOn(h, t)
        /\ ENABLED Clear(w)

\* C21: when the free list of a World is not empty, creating an Entity in it
\* raises nothing, binds the Entity to the lowest index of the free list, takes
\* that index off the free list and leaves the capacity unchanged.
C21_ReuseLowestFreeSlot ==
    \A w \in Worlds : \A h \in Handles :
        (/\ WAlive(w) /\ h \in scope.handles /\ ~entity[h].alive
         /\ world[w].m_open # {}) =>
            \A d \in EntityCtorWorld(Cfg, h, w) :
                LET k == Min(world[w].m_open)
                IN  /\ d.exc = NoExc
                    /\ BoundIn(d.entity, h)
                    /\ d.entity[h].m_world = w /\ d.entity[h].m_id = k
                    /\ d.world[w].m_open = world[w].m_open \ {k}
                    /\ d.world[w].m_capacity = world[w].m_capacity

\* C22: reset() or the destruction of an Entity that holds an occupied slot
\* throws nothing and, when it returns, has lowered the capacity by one and
\* left the free list alone if the slot was the top one (capacity - 1), and
\* has put the index on the free list and left the capacity alone otherwise;
\* and no step of the program lowers a capacity except by one, when an Entity
\* bound to the top slot gives that slot up.
C22_ReleaseBookkeeping ==
    /\ [](\A h \in Handles :
            (/\ ~fault /\ BoundIn(entity, h)
             /\ world[entity[h].m_world].alive
             /\ OccupiedSlot(world, entity[h].m_world, entity[h].m_id)) =>
                LET w == entity[h].m_world
                    id == entity[h].m_id
                    top == world[w].m_capacity - 1
                IN  \A d \in EntityReset(Cfg, h) \cup EntityDtor(Cfg, h) :
                        /\ ~Raised(d)
                        /\ d.exc = NoExc =>
                              IF id = top
                              THEN /\ d.world[w].m_capacity = top
                                   /\ d.world[w].m_open = world[w].m_open
                              ELSE /\ d.world[w].m_capacity = world[w].m_capacity
                                   /\ d.world[w].m_open = world[w].m_open \cup {id})
    /\ [][\A w \in Worlds :
            world'[w].m_capacity < world[w].m_capacity =>
                /\ world'[w].m_capacity = world[w].m_capacity - 1
                /\ \E h \in Handles :
                      /\ BoundIn(entity, h)
                      /\ entity[h].m_world = w
                      /\ entity[h].m_id = world[w].m_capacity - 1
                      /\ ~(/\ BoundIn(entity', h)
                            /\ entity'[h].m_world = w
                            /\ entity'[h].m_id = entity[h].m_id)]_vars

\* A top slot and a slot below it are both held, and each can be released.
C22_Witness ==
    \E h, g \in Handles :
        /\ ~fault /\ BoundIn(entity, h) /\ BoundIn(entity, g)
        /\ entity[h].m_world = entity[g].m_world
        /\ world[entity[h].m_world].alive
        /\ world[entity[h].m_world].m_capacity = 2
        /\ world[entity[h].m_world].m_open = {}
        /\ entity[h].m_id = 1 /\ entity[g].m_id = 0
        /\ ENABLED Reset(h) /\ ENABLED Destroy(g)

\* C23: when the free list of a World is empty, creating an Entity in it
\* raises nothing, raises the capacity by one, binds the Entity to the old
\* capacity as its index and leaves every registered pool as long as the new
\* capacity, the new slot inactive in each and every slot below it active or
\* not and valued as before.
C23_GrowByOne ==
    \A w \in Worlds : \A h \in Handles :
        (/\ WAlive(w) /\ h \in scope.handles /\ ~entity[h].alive
         /\ world[w].m_open = {}) =>
            \A d \in EntityCtorWorld(Cfg, h, w) :
                LET cap == world[w].m_capacity
                IN  /\ d.exc = NoExc
                    /\ BoundIn(d.entity, h)
                    /\ d.entity[h].m_world = w /\ d.entity[h].m_id = cap
                    /\ d.world[w].m_capacity = cap + 1
                    /\ d.world[w].m_open = {}
                    /\ DOMAIN d.world[w].m_registry = DOMAIN world[w].m_registry
                    /\ \A t \in DOMAIN d.world[w].m_registry :
                          /\ Len(d.world[w].m_registry[t].m_pool) = cap + 1
                          /\ Len(d.world[w].m_registry[t].m_active) = cap + 1
                          /\ ~ActiveAt(d.world, w, t, cap)
                    /\ \A id \in 0..MaxCap :
                          id < cap => SlotState(d.world, w, id) = SlotState(world, w, id)

\* An Entity is created in a World whose free list is empty while a component
\* with a payload is active on an existing slot.
C23_Witness ==
    \E w \in Worlds : \E h, g \in Handles : \E t \in Types :
        /\ WAlive(w) /\ ~entity[h].alive /\ world[w].m_open = {}
        /\ BoundIn(entity, g) /\ entity[g].m_world = w /\ ActiveOn(g, t)
        /\ ValAt(world, w, t, entity[g].m_id) # 0
        /\ ENABLED ConstructIn(h, w)

\* C24: in every reachable state every registered pool of a World is as long
\* as the capacity of the World (so all its pools have one length).
C24_PoolLengthIsCapacity ==
    \A w \in Worlds :
        WAlive(w) =>
            \A t \in DOMAIN world[w].m_registry :
                /\ Len(world[w].m_registry[t].m_pool) = world[w].m_capacity
                /\ Len(world[w].m_registry[t].m_active) = world[w].m_capacity

\* C24 as the code has it: in every reachable state every registered pool of
\* a World is at least as long as the capacity of the World, and its sequence
\* of components and its sequence of activation flags have one length.  (The
\* release of the top slot lowers the capacity and leaves the pools alone.)
C24_PoolCoversCapacity ==
    \A w \in Worlds :
        WAlive(w) =>
            \A t \in DOMAIN world[w].m_registry :
                /\ Len(world[w].m_registry[t].m_pool) >= world[w].m_capacity
                /\ Len(world[w].m_registry[t].m_active)
                     = Len(world[w].m_registry[t].m_pool)

\* A pool is longer than the capacity: the top slot was released after the
\* type was registered.
C24_Witness ==
    \E w \in Worlds : \E t \in Types :
        /\ WAlive(w) /\ Registered(world[w], t)
        /\ Len(world[w].m_registry[t].m_pool) > world[w].m_capacity

\* C25: when reset() or the destruction of an Entity that holds an occupied
\* slot returns, the slot is inactive in every registered pool; and in every
\* reachable state a pool marks an index active only if the index is below
\* the capacity and not on the free list.
C25_ActiveOnlyOnOccupied ==
    /\ \A w \in Worlds : \A t \in Types : \A id \in 0..MaxCap :
          (WAlive(w) /\ ActiveAt(world, w, t, id)) => OccupiedSlot(world, w, id)
    /\ \A h \in Handles :
          (/\ ~fault /\ BoundIn(entity, h)
           /\ world[entity[h].m_world].alive
           /\ OccupiedSlot(world, entity[h].m_world, entity[h].m_id)) =>
              \A d \in EntityReset(Cfg, h) \cup EntityDtor(Cfg, h) :
                  /\ ~Raised(d)
                  /\ d.exc = NoExc =>
                        \A t \in Types :
                            ~ActiveAt(d.world, entity[h].m_world, t, entity[h].m_id)

\* An Entity that holds components of every type of its World is about to
\* release its slot.
C25_Witness ==
    \E h \in Handles :
        /\ ~fault /\ BoundIn(entity, h)
        /\ \E t \in Types : ActiveOn(h, t)
        /\ \A t \in scope.types[entity[h].m_world] : ActiveOn(h, t)
        /\ ENABLED Reset(h) /\ ENABLED Destroy(h)

\* C26: when World.clear() returns, the slot table of the World is empty
\* (capacity 0, entity count 0, no index on the free list) and the handle table
\* is empty, and the next Entity created in the World is bound to slot 0.
C26_ClearEmptiesSlotTable ==
    \A w \in Worlds :
        WAlive(w) =>
            \A d \in clear(Cfg, w) :
                d.exc = NoExc =>
                    /\ SlotTable(d.world, w) = <<0, {}, 0>>
                    /\ d.world[w].m_entities = << >>
                    /\ \A h \in Handles :
                          ~d.entity[h].alive =>
                              \A e \in EntityCtorWorld(d, h, w) :
                                  e.exc = NoExc /\ e.entity[h].m_id = 0

\* The Entity that the component of type t at slot id of World w refers to.
EntityOf(wd, w, t, id) == wd[w].m_registry[t].m_pool[id + 1].m_entity

\* Entity b(std::move(a)), or b.reset(std::move(a)) on a live b.
MoveInto(b, a) ==
    IF entity[b].alive THEN EntityResetMove(Cfg, b, a)
    ELSE EntityCtorMove(Cfg, b, a)

\* C27: after Entity b(std::move(a)) or b.reset(std::move(a)) with a bound,
\* m_entity of every component active on the slot that went from a to b
\* refers to b, the new owner of the slot, and not to a.
C27_MoveUpdatesBackReference ==
    \A a, b \in Handles :
        (/\ ~fault /\ a # b /\ b \in scope.handles
         /\ BoundIn(entity, a) /\ world[entity[a].m_world].alive) =>
            \A d \in MoveInto(b, a) :
                d.exc = NoExc =>
                    \A t \in Types :
                        ActiveAt(d.world, entity[a].m_world, t, entity[a].m_id) =>
                            EntityOf(d.world, entity[a].m_world, t, entity[a].m_id) = b

\* The place of type t in the key order of the registry.
TypeIndex(t) == CHOOSE i \in DOMAIN TypeSeq : TypeSeq[i] = t

\* C28: one World.update() calls update() on every component exactly once in
\* this order: all components of one type before any of the next type, and
\* inside a type by strictly ascending slot index; the components it calls are
\* those its effect shows, and the order of the next call is the same.
C28_UpdateOrderWithinCall ==
    \A w \in Worlds :
        WAlive(w) =>
            LET s == UpdateOrder(Cfg, w)
            IN  /\ \A j, k \in DOMAIN s :
                      j < k =>
                          \/ TypeIndex(s[j][1]) < TypeIndex(s[k][1])
                          \/ s[j][1] = s[k][1] /\ s[j][2] < s[k][2]
                /\ \A d \in update(Cfg, w) :
                      /\ UpdateOrder(d, w) = s
                      /\ \A t \in DOMAIN world[w].m_registry :
                            \A id \in 0..MaxCap :
                                id < Len(world[w].m_registry[t].m_pool) =>
                                    Updates(world, d.world, w, t, id)
                                        = Cardinality({j \in DOMAIN s : s[j] = <<t, id>>})

\* update() is called on a World with two types, each active on two slots.
C28_Witness ==
    \E w \in Worlds :
        /\ WAlive(w)
        /\ Len(UpdateOrder(Cfg, w)) = 4
        /\ ENABLED Update(w)

\* w.add<t1>(); w.add<t2>(); h.add<t1>(0); h.add<t2>(0); the calls that return.
RegisterInOrder(w, h, t1, t2) ==
    {d \in Then(Then(Then(WorldAdd(Cfg, w, t1),
                          LAMBDA c : WorldAdd(c, w, t2)),
                     LAMBDA c : EntityAdd(c, h, t1, 0)),
                LAMBDA c : EntityAdd(c, h, t2, 0)) : d.exc = NoExc}

\* Every call of update() on a component of type t1 comes before every call
\* on a component of type t2 in the sequence s of calls.
TypeBefore(s, t1, t2) ==
    \A j, k \in DOMAIN s : (s[j][1] = t1 /\ s[k][1] = t2) => j < k

\* C29 as stated: when type t1 is registered before type t2, World.update()
\* calls update() on every active t1 component before any active t2 component.
C29_UpdateInRegistrationOrder ==
    \A w \in Worlds : \A h \in Handles : \A t1, t2 \in Types :
        (/\ WAlive(w) /\ t1 # t2
         /\ ~Registered(world[w], t1) /\ ~Registered(world[w], t2)
         /\ BoundIn(entity, h) /\ entity[h].m_world = w
         /\ OccupiedSlot(world, w, entity[h].m_id)) =>
            \A d \in RegisterInOrder(w, h, t1, t2) :
                TypeBefore(UpdateOrder(d, w), t1, t2)

\* C29 as the code has it: World.update() visits the types in the key order
\* of the registry, whichever of two types was registered first.
C29_UpdateInKeyOrder ==
    \A w \in Worlds : \A h \in Handles : \A t1, t2 \in Types :
        (/\ WAlive(w) /\ t1 # t2
         /\ ~Registered(world[w], t1) /\ ~Registered(world[w], t2)
         /\ BoundIn(entity, h) /\ entity[h].m_world = w
         /\ OccupiedSlot(world, w, entity[h].m_id)) =>
            \A d \in RegisterInOrder(w, h, t1, t2) :
                /\ {p[1] : p \in {UpdateOrder(d, w)[j] : j \in DOMAIN UpdateOrder(d, w)}}
                     = {t1, t2}
                /\ IF TypeIndex(t1) < TypeIndex(t2)
                   THEN TypeBefore(UpdateOrder(d, w), t1, t2)
                   ELSE TypeBefore(UpdateOrder(d, w), t2, t1)

\* An Entity holds a slot of a World that has no type registered yet, so the
\* two types can be registered in either order.
C29_Witness ==
    \E w \in Worlds : \E h \in Handles :
        /\ WAlive(w) /\ DOMAIN world[w].m_registry = {}
        /\ Cardinality(scope.types[w]) >= 2
        /\ BoundIn(entity, h) /\ entity[h].m_world = w
        /\ OccupiedSlot(world, w, entity[h].m_id)
        /\ \A t \in scope.types[w] : ENABLED Register(w, t)
        /\ RegisterInOrder(w, h, "Y", "X") # {}

\* ComponentPool::add(index) and ComponentPool::remove(index) as calls: the
\* exception raised (or NoExc) and the pool afterwards.
PoolAddCall(p, index) ==
    IF PoolAddThrows(p, index) THEN <<"runtime_error", p>>
    ELSE <<NoExc, PoolAdd(p, index)>>

PoolRemoveCall(p, index) ==
    IF PoolRemoveThrows(p, index) THEN <<"runtime_error", p>>
    ELSE <<NoExc, PoolRemove(p, index)>>

\* C30: on every pool, add(index) and remove(index) with index at or beyond
\* the length of the pool raise std::runtime_error and leave the pool as it
\* was, and has(index) with such an index answers false; remove<T>() of an
\* Entity whose index is beyond the pool raises and changes nothing.
C30_PoolOutOfRange ==
    /\ \A w \in Worlds : \A t \in DOMAIN world[w].m_registry :
          \A index \in 0..MaxCap + 2 :
              LET p == world[w].m_registry[t]
              IN  index >= Len(p.m_pool) =>
                      /\ PoolAddCall(p, index) = <<"runtime_error", p>>
                      /\ PoolRemoveCall(p, index) = <<"runtime_error", p>>
                      /\ PoolHas(p, index) = FALSE
    /\ \A h \in Handles : \A t \in Types :
          (/\ ~fault /\ BoundIn(entity, h) /\ RegisteredFor(h, t)
           /\ entity[h].m_id >= Len(world[entity[h].m_world].m_registry[t].m_pool)) =>
              /\ \A d \in EntityRemove(Cfg, h, t) :
                    d.exc = "runtime_error" /\ Unchanged(d)
              /\ \A d \in EntityHas(Cfg, h, t) : d.exc = NoExc /\ ~d.retb

\* An Entity is bound with an index beyond the pool of a registered type whose
\* pool is not empty, and calls remove<T>().
C30_Witness ==
    \E h \in Handles : \E t \in Types :
        /\ ~fault /\ BoundIn(entity, h) /\ RegisteredFor(h, t)
        /\ Len(world[entity[h].m_world].m_registry[t].m_pool) > 0
        /\ entity[h].m_id >= Len(world[entity[h].m_world].m_registry[t].m_pool)
        /\ ENABLED Remove(h, t)

\* C31: in every reachable state the handle table of a World holds at
\* position i, for every occupied slot i, the Entity that is bound to slot i
\* of that World, and every entry of the table refers to a live Entity that
\* is bound to that World.
C31_HandleTableMatchesSlots ==
    \A w \in Worlds :
        WAlive(w) =>
            /\ \A i \in 0..MaxCap :
                  OccupiedSlot(world, w, i) =>
                      /\ i < Len(world[w].m_entities)
                      /\ BoundIn(entity, world[w].m_entities[i + 1])
                      /\ entity[world[w].m_entities[i + 1]].m_world = w
                      /\ entity[world[w].m_entities[i + 1]].m_id = i
            /\ \A j \in DOMAIN world[w].m_entities :
                  /\ BoundIn(entity, world[w].m_entities[j])
                  /\ entity[world[w].m_entities[j]].m_world = w

\* Creation in a World, move construction, move reset, reset() and
\* destruction, on the Entities they can be called on.
LifecycleCalls ==
    UNION ({EntityCtorWorld(Cfg, h, w) :
                h \in {g \in scope.handles : ~entity[g].alive},
                w \in {v \in Worlds : world[v].alive}}
           \cup {EntityCtorMove(Cfg, h, o) :
                h \in {g \in scope.handles : ~entity[g].alive},
                o \in {g \in Handles : entity[g].alive}}
           \cup {EntityResetMove(Cfg, h, o) :
                h \in {g \in Handles : entity[g].alive},
                o \in {g \in Handles : entity[g].alive}}
           \cup {EntityReset(Cfg, h) : h \in {g \in Handles : entity[g].alive}}
           \cup {EntityDtor(Cfg, h) : h \in {g \in Handles : entity[g].alive}})

\* C32: after any sequence of operations on live Worlds, creating, moving and
\* destroying Entities complete without error: no exception and no fault
\* (no index of the handle table out of range).
C32_LifecycleNeverFails ==
    (~fault /\ \A h \in Handles :
                  BoundIn(entity, h) => world[entity[h].m_world].alive) =>
        \A d \in LifecycleCalls : d.exc = NoExc

\* C33: in every reachable state no two bound Entities refer to the same slot
\* of the same World.
C33_NoSharedSlot ==
    \A g, h \in Handles :
        (~fault /\ g # h /\ BoundIn(entity, g) /\ BoundIn(entity, h)) =>
            <<entity[g].m_world, entity[g].m_id>> # <<entity[h].m_world, entity[h].m_id>>

\* C34: World.clear() and the destruction of a World w change no Entity that
\* is bound to another World when they are called, and no other World: an Entity that
\* an earlier w.clear() unbound and that is bound to another World since
\* keeps its World, its slot and its components.
C34_ClearTouchesOwnHandlesOnly ==
    \A w \in Worlds :
        WAlive(w) =>
            \A d \in clear(Cfg, w) \cup WorldDtor(Cfg, w) :
                /\ \A h \in Handles :
                      (BoundIn(entity, h) /\ entity[h].m_world # w)
                          => d.entity[h] = entity[h]
                /\ \A v \in Worlds \ {w} : d.world[v] = world[v]


\* The handles bound to World w, and the slots of w that are occupied.
BoundTo(w) == {h \in Handles : BoundIn(entity, h) /\ entity[h].m_world = w}

OccupiedSlots(w) == {i \in 0..MaxCap : OccupiedSlot(world, w, i)}

\* C35: in every World the number of occupied slots (the capacity less the
\* length of the free list, which the World also keeps as its entity count)
\* equals the number of Entity handles bound to that World: no slot stays
\* occupied without a handle.
C35_OccupiedSlotsAreBoundHandles ==
    \A w \in Worlds :
        WAlive(w) =>
            /\ Cardinality(OccupiedSlots(w)) = Cardinality(BoundTo(w))
            /\ world[w].m_capacity - Cardinality(world[w].m_open)
                   = Cardinality(BoundTo(w))
            /\ world[w].m_count = Cardinality(BoundTo(w))


\* C36: every index on a World's free list is below the World's capacity, and
\* the slot of every bound Entity is below its World's capacity and is not on
\* the free list.
C36_SlotsWithinCapacity ==
    /\ \A w \in Worlds :
          WAlive(w) => \A i \in world[w].m_open : i < world[w].m_capacity
    /\ \A h \in Handles :
          (~fault /\ BoundIn(entity, h)) =>
              OccupiedSlot(world, entity[h].m_world, entity[h].m_id)


\* C37: every registered pool is at least as long as the capacity of its
\* World, so add<T>() on a bound Entity whose slot the World knows and whose
\* World has T registered reaches the pool with an index inside it and
\* returns without raising; this holds too once the tail of the slot table
\* has been given up and types were registered and Entities created since.
C37_AddNeverOutOfPool ==
    /\ \A w \in Worlds :
          WAlive(w) =>
              \A t \in DOMAIN world[w].m_registry :
                  Len(world[w].m_registry[t].m_pool) >= world[w].m_capacity
    /\ \A h \in Handles : \A t \in Types :
          (/\ ~fault /\ BoundIn(entity, h) /\ RegisteredFor(h, t)
           /\ hasEntity(Cfg, entity[h].m_world, h)) =>
              /\ ~PoolAddThrows(world[entity[h].m_world].m_registry[t],
                                entity[h].m_id)
              /\ \A arg \in ArgVals :
                    \A d \in EntityAdd(Cfg, h, t, arg) : d.exc = NoExc

\* A pool kept its length when the tail of the slot table was given up, a
\* second type was registered afterwards, and an Entity of that World can
\* be given a component of either type.
C37_Witness ==
    \E w \in Worlds : \E h \in Handles :
        /\ WAlive(w) /\ BoundIn(entity, h) /\ entity[h].m_world = w
        /\ hasEntity(Cfg, w, h)
        /\ DOMAIN world[w].m_registry = {"X", "Y"}
        /\ Len(world[w].m_registry["X"].m_pool) > world[w].m_capacity
        /\ Len(world[w].m_registry["Y"].m_pool) = world[w].m_capacity
        /\ ~ActiveOn(h, "X") /\ ~ActiveOn(h, "Y")
        /\ ENABLED Add(h, "Y", 1)


\* Entity h(w) on a location not constructed yet, and h.reset(w) on a live one.
CreateIn(h, w) ==
    IF entity[h].alive THEN EntityResetWorld(Cfg, h, w)
    ELSE IF h \in scope.handles THEN EntityCtorWorld(Cfg, h, w)
    ELSE {}

\* C38: when Entity(world) or reset(world) returns, the Entity is bound to
\* world and has no active component of any type registered there; this
\* holds too when it reuses a slot whose previous occupant had components
\* and when a pool kept its length after the tail of the slot table was
\* given up.
C38_CreatedHasNoComponents ==
    \A w \in Worlds : \A h \in Handles :
        WAlive(w) =>
            \A d \in CreateIn(h, w) :
                d.exc = NoExc =>
                    /\ BoundIn(d.entity, h) /\ d.entity[h].m_world = w
                    /\ \A t \in Types :
                          ~ActiveAt(d.world, w, t, d.entity[h].m_id)


\* Two Entities of one World have active components: one holds a slot that
\* is not the last, so reset(world) frees the slot and takes it again; the
\* other holds the last slot, so reset(world) gives up the tail of the slot
\* table, the pool keeps its length, and the slot is created again.
C38_Witness ==
    \E w \in Worlds : \E h, g \in Handles : \E t \in Types :
        /\ WAlive(w) /\ h # g
        /\ BoundIn(entity, h) /\ entity[h].m_world = w
        /\ BoundIn(entity, g) /\ entity[g].m_world = w
        /\ ActiveOn(h, t) /\ ActiveOn(g, t)
        /\ ValAt(world, w, t, entity[h].m_id) # 0
        /\ entity[h].m_id < world[w].m_capacity - 1
        /\ entity[g].m_id = world[w].m_capacity - 1
        /\ ENABLED ResetIn(h, w) /\ ENABLED ResetIn(g, w)
        /\ \E d \in CreateIn(h, w) :
              d.exc = NoExc /\ d.entity[h].m_id = entity[h].m_id
        /\ \E d \in CreateIn(g, w) :
              /\ d.exc = NoExc /\ d.entity[g].m_id = entity[g].m_id
              /\ Len(d.world[w].m_registry[t].m_pool) = Len(world[w].m_registry[t].m_pool)


\* Entity h(o) on a location not constructed yet, and h.reset(o) on a live one.
CloneOf(h, o) ==
    IF entity[h].alive THEN EntityResetCopy(Cfg, h, o)
    ELSE IF h \in scope.handles THEN EntityCtorCopy(Cfg, h, o)
    ELSE {}

\* The call that ends in d left the slot and the components of handle g as
\* they were.
KeptEntity(d, g) ==
    /\ d.entity[g] = entity[g]
    /\ ComponentsAt(d.world, entity[g].m_world, entity[g].m_id)
           = ComponentsAt(world, entity[g].m_world, entity[g].m_id)

\* The call that ends in d left the components of every bound Entity other
\* than h and o as they were.
KeptOthers(d, h, o) ==
    \A g \in Handles \ {h, o} :
        (BoundIn(entity, g) /\ world[entity[g].m_world].alive) =>
            ComponentsAt(d.world, entity[g].m_world, entity[g].m_id)
                = ComponentsAt(world, entity[g].m_world, entity[g].m_id)

\* The call that ends in d left the slot table and the pools of World v as
\* they were.
KeptWorld(d, v) ==
    /\ d.world[v].m_capacity = world[v].m_capacity
    /\ d.world[v].m_open = world[v].m_open
    /\ d.world[v].m_registry = world[v].m_registry

\* C39: a clone (copy construction, reset(other), and both with a World
\* given) leaves the source Entity bound to the same slot with the same
\* active components and values, leaves the components of every other
\* Entity as they were, and, when the copy goes to another World, leaves
\* the capacity, the free list and the pools of the source's World as they
\* were.
C39_CloneLeavesSourceAlone ==
    \A h, o \in Handles :
        (/\ ~fault /\ h # o /\ h \in scope.handles /\ BoundIn(entity, o)
         /\ world[entity[o].m_world].alive) =>
            /\ \A d \in CloneOf(h, o) :
                  d.exc # "crash" => KeptEntity(d, o) /\ KeptOthers(d, h, o)
            /\ \A w \in Worlds :
                  world[w].alive =>
                      \A d \in CloneInto(h, o, w) :
                          d.exc # "crash" =>
                              /\ KeptEntity(d, o) /\ KeptOthers(d, h, o)
                              /\ w # entity[o].m_world =>
                                    KeptWorld(d, entity[o].m_world)


\* C40: Entity(other, world) and reset(other, world) with an unbound other
\* never reach through the missing World of other: the call either raises
\* an exception, and then the slot table of world is as it was and the
\* Entity is not bound to it, or it returns an Entity bound to an occupied
\* slot of world with no active component.
C40_CloneFromUnboundIsSafe ==
    \A h, o \in Handles : \A w \in Worlds :
        (/\ ~fault /\ h # o /\ h \in scope.handles
         /\ UnboundIn(entity, o) /\ world[w].alive
         /\ ~(BoundIn(entity, h) /\ ~world[entity[h].m_world].alive)) =>
            \A d \in CloneInto(h, o, w) :
                /\ d.exc # "crash"
                /\ d.exc = NoExc =>
                      /\ BoundIn(d.entity, h) /\ d.entity[h].m_world = w
                      /\ OccupiedSlot(d.world, w, d.entity[h].m_id)
                      /\ \A t \in Types :
                            ~ActiveAt(d.world, w, t, d.entity[h].m_id)
                /\ d.exc # NoExc =>
                      /\ ~(BoundIn(d.entity, h) /\ d.entity[h].m_world = w)
                      /\ d.world[w].m_capacity = world[w].m_capacity
                      /\ d.world[w].m_open = world[w].m_open

============================================================================
